---- MODULE Spec2Model ----
(***************************************************************************)
(* Model of print-log-streams (src/src/main.rs): one run of main, the      *)
(* describe_log_streams call of get_streams, the three calls of            *)
(* count_active_streams and the optional put_metric_data call.             *)
(*                                                                         *)
(* Time.  A chrono::DateTime<Utc> is a whole number of seconds since the   *)
(* epoch plus a nanosecond part: [secs, nanos], 0 <= nanos < 10^9.          *)
(* A last_event_timestamp is an i64 number of milliseconds; present-day    *)
(* values (about 1.7 * 10^12) exceed the 32-bit integers of TLC, so an i64 *)
(* millisecond value v is held as two limbs, v = hi * Limb + lo with       *)
(* 0 <= lo < Limb.  Only non-negative timestamps are drawn (the service    *)
(* reports milliseconds after the epoch), all far inside the range in      *)
(* which Utc.timestamp_opt(..).unwrap() succeeds.                          *)
(***************************************************************************)
EXTENDS Integers, Sequences, FiniteSets

VARIABLES pc, namespace, groupStreams, current_datetime, streams,
          count_1month, count_1week, count_1day,
          describeCalls, putCalls, stdout, result

vars == <<pc, namespace, groupStreams, current_datetime, streams,
          count_1month, count_1week, count_1day,
          describeCalls, putCalls, stdout, result>>

----------------------------------------------------------------------------
(* Bounds of the model *)

\* largest number of streams the log group holds
MaxStreams == 3

\* number of streams the service puts in one page of describe_log_streams
PageLimit == 2

----------------------------------------------------------------------------
(* Program constants *)

\* last_event_timestamp / 1000
MsPerSec == 1000

\* chrono::Duration::days(n) is n * 86400 seconds
SecsPerDay == 86400

\* the windows main asks for
MonthDays == 30

WeekDays == 7

DayDays == 1

\* base of the two-limb representation of an i64 millisecond value
Limb == MsPerSec * MsPerSec

\* nanoseconds in a millisecond
NanosPerMs == MsPerSec * MsPerSec

\* Option<T>: <<>> is None, <<x>> is Some(x)
None == <<>>

Some(x) == <<x>>

group == "my-log-group"

----------------------------------------------------------------------------
(* Input domains *)

\* 2024-01-31T00:00:00Z, day 19753 of the epoch, in seconds
BaseSecs == 19753 * SecsPerDay

\* instants Utc::now() may return: on a whole second, and half a second later
NowInstants ==
    { [secs |-> BaseSecs, nanos |-> 0],
      [secs |-> BaseSecs, nanos |-> 500 * NanosPerMs] }

\* the i64 millisecond value of s seconds and m milliseconds, as limbs
MsValue(s, m) ==
    [hi |-> s \div MsPerSec,
     lo |-> (s % MsPerSec) * MsPerSec + m]

\* window lengths the classifier is examined with
Windows == {0, DayDays, WeekDays, MonthDays}

\* last-event timestamps around the cutoff of each window of main: on the
\* cutoff second, half a second after it, and one second after it
Timestamps ==
    { MsValue(BaseSecs - d * SecsPerDay, m) :
        d \in {DayDays, WeekDays, MonthDays}, m \in {0, 500, 1000} }

\* a LogStream, reduced to the one attribute the program reads
LogStreams ==
    { [last_event_timestamp |-> t] : t \in {None} \cup {Some(x) : x \in Timestamps} }

SeqsUpTo(S, n) == UNION { [1..k -> S] : k \in 0..n }

----------------------------------------------------------------------------
(* chrono arithmetic *)

\* Utc.timestamp_opt(secs, 0).unwrap()
timestamp_opt(secs, nsecs) == [secs |-> secs, nanos |-> nsecs]

\* DateTime - chrono::Duration::days(days)
SubDays(dt, days) == [secs |-> dt.secs - days * SecsPerDay, nanos |-> dt.nanos]

\* mutant: the operands of the comparison exchanged
DateTimeLt_Swapped(a, b) ==
    \/ b.secs < a.secs
    \/ b.secs = a.secs /\ b.nanos < a.nanos

\* mutant: <= in place of <
DateTimeLt_OrEqual(a, b) ==
    \/ a.secs < b.secs
    \/ a.secs = b.secs /\ a.nanos <= b.nanos

\* a < b on DateTime<Utc>
DateTimeLt(a, b) ==
    \/ a.secs < b.secs
    \/ a.secs = b.secs /\ a.nanos < b.nanos

\* mutant: the division rounds to the nearest second
DivMsPerSec_Rounded(ts) ==
    ts.hi * (Limb \div MsPerSec) + (ts.lo + MsPerSec \div 2) \div MsPerSec

\* i64 division last_event_timestamp / 1000 on the limbs of a non-negative value
DivMsPerSec(ts) == ts.hi * (Limb \div MsPerSec) + ts.lo \div MsPerSec

----------------------------------------------------------------------------
(* count_active_streams *)

\* the test of one stream: the two nested ifs of the loop body
IsCounted(stream, now, duration) ==
    /\ stream.last_event_timestamp # None
    /\ LET last_event_timestamp == stream.last_event_timestamp[1]
           last_event_datetime == timestamp_opt(DivMsPerSec(last_event_timestamp), 0)
       IN  DateTimeLt(SubDays(now, duration), last_event_datetime)

RECURSIVE CountLoop(_, _, _, _, _)
\* the for loop, from element i on, with the running count
CountLoop(strs, now, duration, i, count) ==
    IF i > Len(strs) THEN count
    ELSE CountLoop(strs, now, duration, i + 1,
                   IF IsCounted(strs[i], now, duration) THEN count + 1 ELSE count)

count_active_streams(strs, now, duration) == CountLoop(strs, now, duration, 1, 0)

\* the line count_active_streams prints
CountLine(count, duration) == [line |-> "streams updated", count |-> count, days |-> duration]

----------------------------------------------------------------------------
(* The services *)

Min(a, b) == IF a < b THEN a ELSE b

\* the response of one describe_log_streams request without a token: the
\* first page of the group's streams, and a token when more pages follow
DescribeLogStreamsOutput(all) ==
    [log_streams |-> SubSeq(all, 1, Min(PageLimit, Len(all))),
     next_token  |-> IF Len(all) > PageLimit THEN Some(PageLimit + 1) ELSE None]

----------------------------------------------------------------------------
(* main *)

Init ==
    /\ pc = "start"
    /\ namespace \in {None, Some("my-namespace")}
    /\ groupStreams \in SeqsUpTo(LogStreams, MaxStreams)
    /\ current_datetime = None
    /\ streams = <<>>
    /\ count_1month = 0
    /\ count_1week = 0
    /\ count_1day = 0
    /\ describeCalls = <<>>
    /\ putCalls = <<>>
    /\ stdout = <<>>
    /\ result = "running"

\* let current_datetime = Utc::now();
UtcNow ==
    /\ pc = "start"
    /\ \E now \in NowInstants : current_datetime' = Some(now)
    /\ pc' = "get_streams"
    /\ UNCHANGED <<namespace, groupStreams, streams, count_1month, count_1week,
                   count_1day, describeCalls, putCalls, stdout, result>>

\* get_streams: client.describe_log_streams().log_group_name(..).send()
SendDescribe ==
    /\ pc = "get_streams"
    /\ describeCalls' = Append(describeCalls,
                               [log_group_name |-> group, next_token |-> None,
                                outcome |-> "pending"])
    /\ pc' = "await_describe"
    /\ UNCHANGED <<namespace, groupStreams, current_datetime, streams, count_1month,
                   count_1week, count_1day, putCalls, stdout, result>>

\* .await returns Ok(resp): the streams of the response are returned to main
DescribeOk ==
    /\ pc = "await_describe"
    /\ LET resp == DescribeLogStreamsOutput(groupStreams)
       IN  /\ streams' = resp.log_streams
           /\ stdout' = Append(stdout, [line |-> "Found streams",
                                        count |-> Len(resp.log_streams), days |-> 0])
    /\ describeCalls' = [describeCalls EXCEPT ![Len(describeCalls)].outcome = "ok"]
    /\ pc' = "count_1month"
    /\ UNCHANGED <<namespace, groupStreams, current_datetime, count_1month,
                   count_1week, count_1day, putCalls, result>>

\* mutant: the error of the listing is swallowed (unwrap_or_default) and main
\* goes on with no streams
DescribeErr_Continues ==
    /\ pc = "await_describe"
    /\ describeCalls' = [describeCalls EXCEPT ![Len(describeCalls)].outcome = "err"]
    /\ streams' = <<>>
    /\ pc' = "count_1month"
    /\ UNCHANGED <<namespace, groupStreams, current_datetime, count_1month,
                   count_1week, count_1day, putCalls, stdout, result>>

\* .await? returns Err: get_streams returns it, main's ? converts it with
\* #[from] and returns Err(AWSError::CloudWatchLogsError)
DescribeErr ==
    /\ pc = "await_describe"
    /\ describeCalls' = [describeCalls EXCEPT ![Len(describeCalls)].outcome = "err"]
    /\ result' = "CloudWatchLogsError"
    /\ pc' = "exit"
    /\ UNCHANGED <<namespace, groupStreams, current_datetime, streams, count_1month,
                   count_1week, count_1day, putCalls, stdout>>

\* let count_1month = count_active_streams(&streams, &current_datetime, 30);
Count1Month ==
    /\ pc = "count_1month"
    /\ LET count == count_active_streams(streams, current_datetime[1], MonthDays)
       IN  /\ count_1month' = count
           /\ stdout' = Append(stdout, CountLine(count, MonthDays))
    /\ pc' = "count_1week"
    /\ UNCHANGED <<namespace, groupStreams, current_datetime, streams, count_1week,
                   count_1day, describeCalls, putCalls, result>>

\* let count_1week = count_active_streams(&streams, &current_datetime, 7);
Count1Week ==
    /\ pc = "count_1week"
    /\ LET count == count_active_streams(streams, current_datetime[1], WeekDays)
       IN  /\ count_1week' = count
           /\ stdout' = Append(stdout, CountLine(count, WeekDays))
    /\ pc' = "count_1day"
    /\ UNCHANGED <<namespace, groupStreams, current_datetime, streams, count_1month,
                   count_1day, describeCalls, putCalls, result>>

\* let count_1day = count_active_streams(&streams, &current_datetime, 1);
Count1Day ==
    /\ pc = "count_1day"
    /\ LET count == count_active_streams(streams, current_datetime[1], DayDays)
       IN  /\ count_1day' = count
           /\ stdout' = Append(stdout, CountLine(count, DayDays))
    /\ pc' = "namespace"
    /\ UNCHANGED <<namespace, groupStreams, current_datetime, streams, count_1month,
                   count_1week, describeCalls, putCalls, result>>

\* one MetricDatum of the vec! of main
MetricDatum(name, value) ==
    [metric_name |-> name,
     timestamp   |-> current_datetime[1],
     unit        |-> "Count",
     value       |-> value,
     dimensions  |-> << [name |-> "LogGroupName", value |-> group] >>]

\* mutant: the weekly and the daily count exchanged
metric_data_Swapped ==
    << MetricDatum("MonthlyActiveStreams", count_1month),
       MetricDatum("WeeklyActiveStreams", count_1day),
       MetricDatum("DailyActiveStreams", count_1week) >>

\* let metric_data = vec![ .. ];
metric_data ==
    << MetricDatum("MonthlyActiveStreams", count_1month),
       MetricDatum("WeeklyActiveStreams", count_1week),
       MetricDatum("DailyActiveStreams", count_1day) >>

\* mutant: the submission is not guarded by the namespace (unwrap_or_default)
SendPutMetricData_Unguarded ==
    /\ pc = "namespace"
    /\ putCalls' = Append(putCalls,
                          [namespace |-> IF namespace = None THEN "" ELSE namespace[1],
                           metric_data |-> metric_data, outcome |-> "pending"])
    /\ pc' = "await_put"
    /\ UNCHANGED <<namespace, groupStreams, current_datetime, streams, count_1month,
                   count_1week, count_1day, describeCalls, stdout, result>>

\* if let Some(namespace) = namespace { .. client.put_metric_data() .. .send()
SendPutMetricData ==
    /\ pc = "namespace"
    /\ namespace # None
    /\ putCalls' = Append(putCalls,
                          [namespace |-> namespace[1], metric_data |-> metric_data,
                           outcome |-> "pending"])
    /\ pc' = "await_put"
    /\ UNCHANGED <<namespace, groupStreams, current_datetime, streams, count_1month,
                   count_1week, count_1day, describeCalls, stdout, result>>

\* namespace is None: the if let is skipped and main returns Ok(())
NoNamespace ==
    /\ pc = "namespace"
    /\ namespace = None
    /\ result' = "Ok"
    /\ pc' = "exit"
    /\ UNCHANGED <<namespace, groupStreams, current_datetime, streams, count_1month,
                   count_1week, count_1day, describeCalls, putCalls, stdout>>

\* .await succeeds: println!("Sent metrics to CloudWatch"), then Ok(())
PutOk ==
    /\ pc = "await_put"
    /\ putCalls' = [putCalls EXCEPT ![Len(putCalls)].outcome = "ok"]
    /\ stdout' = Append(stdout, [line |-> "Sent metrics", count |-> 0, days |-> 0])
    /\ result' = "Ok"
    /\ pc' = "exit"
    /\ UNCHANGED <<namespace, groupStreams, current_datetime, streams, count_1month,
                   count_1week, count_1day, describeCalls>>

\* mutant: the error of the submission is dropped and main returns Ok(())
PutErr_Swallowed ==
    /\ pc = "await_put"
    /\ putCalls' = [putCalls EXCEPT ![Len(putCalls)].outcome = "err"]
    /\ result' = "Ok"
    /\ pc' = "exit"
    /\ UNCHANGED <<namespace, groupStreams, current_datetime, streams, count_1month,
                   count_1week, count_1day, describeCalls, stdout>>

\* .await fails: map_err(aws_sdk_cloudwatch::Error::from)? returns
\* Err(AWSError::CloudWatchError)
PutErr ==
    /\ pc = "await_put"
    /\ putCalls' = [putCalls EXCEPT ![Len(putCalls)].outcome = "err"]
    /\ result' = "CloudWatchError"
    /\ pc' = "exit"
    /\ UNCHANGED <<namespace, groupStreams, current_datetime, streams, count_1month,
                   count_1week, count_1day, describeCalls, stdout>>

Next ==
    \/ UtcNow
    \/ SendDescribe
    \/ DescribeOk
    \/ DescribeErr
    \/ Count1Month
    \/ Count1Week
    \/ Count1Day
    \/ SendPutMetricData
    \/ NoNamespace
    \/ PutOk
    \/ PutErr

Spec == Init /\ [][Next]_vars

\* the status of the process: main returning Ok exits 0, Err exits 1
ExitCode == IF result = "Ok" THEN 0 ELSE 1

----------------------------------------------------------------------------
(* Vocabulary of the properties *)

\* the reference instant, once captured
Now == current_datetime[1]

\* a < b on millisecond values held as limbs
MsLt(a, b) ==
    \/ a.hi < b.hi
    \/ a.hi = b.hi /\ a.lo < b.lo

\* the millisecond value with its remainder below one second discarded
WholeSecondMs(ts) == [hi |-> ts.hi, lo |-> ts.lo - (ts.lo % MsPerSec)]

\* the last whole millisecond at or before now - days
CutoffMs(now, days) ==
    MsValue(now.secs - days * SecsPerDay, now.nanos \div NanosPerMs)

\* the millisecond instant ms is strictly later than now - days: ms is whole,
\* so it is later than the cutoff exactly when it is later than the cutoff's
\* last whole millisecond
LaterThanCutoff(ms, now, days) == MsLt(CutoffMs(now, days), ms)

\* the millisecond instant ms is exactly now - days
OnCutoff(ms, now, days) ==
    /\ now.nanos % NanosPerMs = 0
    /\ ms = CutoffMs(now, days)

\* the streams of strs that carry a timestamp whose whole-second instant is
\* strictly later than now - days
ActiveStreams(strs, now, days) ==
    { i \in DOMAIN strs :
        /\ strs[i].last_event_timestamp # None
        /\ LaterThanCutoff(WholeSecondMs(strs[i].last_event_timestamp[1]), now, days) }

\* the streams of strs whose reported millisecond instant is strictly later
\* than now - days
MsActiveStreams(strs, now, days) ==
    { i \in DOMAIN strs :
        /\ strs[i].last_event_timestamp # None
        /\ LaterThanCutoff(strs[i].last_event_timestamp[1], now, days) }

DescribeSucceeded ==
    \E k \in DOMAIN describeCalls : describeCalls[k].outcome = "ok"

DescribeFailed ==
    \E k \in DOMAIN describeCalls : describeCalls[k].outcome = "err"

PutFailed ==
    \E k \in DOMAIN putCalls : putCalls[k].outcome = "err"

\* the outbound calls in flight
PendingCalls ==
    Cardinality({ k \in DOMAIN describeCalls : describeCalls[k].outcome = "pending" })
    + Cardinality({ k \in DOMAIN putCalls : putCalls[k].outcome = "pending" })

\* main is past the three calls of count_active_streams
Counted == pc \in {"namespace", "await_put", "exit"} /\ DescribeSucceeded

----------------------------------------------------------------------------
(* Properties *)

\* C1: for every stream list, instant now and window D, count_active_streams
\* returns exactly the number of streams that carry a last-event timestamp
\* whose instant, with the millisecond remainder discarded, is strictly later
\* than now - D days; a stream without a timestamp is never counted.
C1_CountIsNumberOfActiveStreams ==
    current_datetime # None =>
        /\ \A D \in Windows :
            /\ count_active_streams(groupStreams, Now, D)
                 = Cardinality(ActiveStreams(groupStreams, Now, D))
            /\ \A i \in DOMAIN groupStreams :
                 groupStreams[i].last_event_timestamp = None
                    => count_active_streams(<<groupStreams[i]>>, Now, D) = 0
        /\ Counted =>
            /\ count_1month = Cardinality(ActiveStreams(streams, Now, MonthDays))
            /\ count_1week = Cardinality(ActiveStreams(streams, Now, WeekDays))
            /\ count_1day = Cardinality(ActiveStreams(streams, Now, DayDays))

\* a run counted a list holding a stream without a timestamp and a stream
\* half a second past the 30-day cutoff second, with now half a second past
\* the second: only the truncation keeps the second stream out
C1_Witness ==
    /\ Counted
    /\ Now.nanos = 500 * NanosPerMs
    /\ Len(streams) = 2
    /\ streams[1].last_event_timestamp = None
    /\ streams[2].last_event_timestamp
         = Some(MsValue(BaseSecs - MonthDays * SecsPerDay, 500))
    /\ count_1month = 0

\* C2: get_streams returns the complete list of the group's streams, every
\* stream of every page the service holds.
C2_AllPagesReturned ==
    (DescribeSucceeded /\ pc # "await_describe") => streams = groupStreams

\* C3: a failed page fetch of the listing does not abort the run.
C3_PageFailureNotFatal ==
    DescribeFailed => result # "CloudWatchLogsError"

\* C4: without a namespace no put_metric_data call is ever issued.
C4_NoNamespaceNoMetrics ==
    namespace = None => putCalls = <<>>

\* a run without namespace that listed and counted streams and returned Ok
C4_Witness ==
    /\ namespace = None
    /\ pc = "exit"
    /\ result = "Ok"
    /\ count_1month > 0

\* the data point the claim expects
ExpectedDatum(d, name, strs, days) ==
    /\ d.metric_name = name
    /\ d.value = Cardinality(ActiveStreams(strs, Now, days))
    /\ d.dimensions = << [name |-> "LogGroupName", value |-> group] >>

\* C5: with a namespace and a successful listing the run issues exactly one
\* submission of exactly three data points, MonthlyActiveStreams,
\* WeeklyActiveStreams and DailyActiveStreams, valued with the 30-day, 7-day
\* and 1-day counts, each with the one dimension LogGroupName = group; for
\* an empty list the three values are 0.
C5_OneBatchOfThreeDataPoints ==
    /\ Len(putCalls) <= 1
    /\ (namespace # None /\ DescribeSucceeded /\ pc \in {"await_put", "exit"}) =>
        /\ Len(putCalls) = 1
        /\ putCalls[1].namespace = namespace[1]
        /\ Len(putCalls[1].metric_data) = 3
        /\ ExpectedDatum(putCalls[1].metric_data[1], "MonthlyActiveStreams",
                         streams, MonthDays)
        /\ ExpectedDatum(putCalls[1].metric_data[2], "WeeklyActiveStreams",
                         streams, WeekDays)
        /\ ExpectedDatum(putCalls[1].metric_data[3], "DailyActiveStreams",
                         streams, DayDays)
        /\ streams = <<>> =>
             \A k \in 1..3 : putCalls[1].metric_data[k].value = 0

\* a finished run that submitted three different counts
C5_Witness ==
    /\ pc = "exit"
    /\ result = "Ok"
    /\ Len(putCalls) = 1
    /\ putCalls[1].metric_data[1].value = 2
    /\ putCalls[1].metric_data[2].value = 1
    /\ putCalls[1].metric_data[3].value = 0

\* C6: a failed listing or a failed submission ends the run with a failure
\* status tagged by the service it came from, and the failed call is not
\* issued again; a run whose calls all succeed ends with status 0; a run
\* that has not ended can take a step.
C6_FailureIsFatalAndNotRetried ==
    /\ Len(describeCalls) <= 1
    /\ Len(putCalls) <= 1
    /\ DescribeFailed =>
        /\ pc = "exit"
        /\ result = "CloudWatchLogsError"
        /\ ExitCode # 0
        /\ putCalls = <<>>
    /\ PutFailed =>
        /\ pc = "exit"
        /\ result = "CloudWatchError"
        /\ ExitCode # 0
    /\ (pc = "exit" /\ ~DescribeFailed /\ ~PutFailed) =>
        /\ result = "Ok"
        /\ ExitCode = 0
    /\ pc = "exit" <=> result # "running"
    /\ pc # "exit" => ENABLED Next

\* a run ended by the failure of its metrics submission
C6_Witness ==
    /\ pc = "exit"
    /\ PutFailed
    /\ result = "CloudWatchError"

\* C7: for windows D1 < D2 the count of D1 is at most the count of D2, every
\* stream counted for D1 is counted for D2, and in every run the 1-day count
\* is at most the 7-day count, which is at most the 30-day count.
C7_MonotonicBuckets ==
    current_datetime # None =>
        /\ \A D1, D2 \in Windows :
            D1 < D2 =>
                /\ count_active_streams(groupStreams, Now, D1)
                     <= count_active_streams(groupStreams, Now, D2)
                /\ \A i \in DOMAIN groupStreams :
                     count_active_streams(<<groupStreams[i]>>, Now, D1)
                        <= count_active_streams(<<groupStreams[i]>>, Now, D2)
        /\ Counted => (count_1day <= count_1week /\ count_1week <= count_1month)

\* a run whose three counts differ
C7_Witness ==
    /\ Counted
    /\ count_1day = 0
    /\ count_1week = 1
    /\ count_1month = 2

\* C8: a stream whose last-event instant is exactly now - D days is not
\* counted for D, be the instant the reported millisecond value or its
\* whole second.
C8_StrictBoundary ==
    current_datetime # None =>
        /\ \A D \in Windows : \A i \in DOMAIN groupStreams :
            LET t == groupStreams[i].last_event_timestamp
            IN  (t # None /\ (\/ OnCutoff(t[1], Now, D)
                              \/ OnCutoff(WholeSecondMs(t[1]), Now, D)))
                    => count_active_streams(<<groupStreams[i]>>, Now, D) = 0
        /\ Counted =>
            /\ (\E i \in DOMAIN streams :
                    /\ streams[i].last_event_timestamp # None
                    /\ OnCutoff(streams[i].last_event_timestamp[1], Now, MonthDays))
                 => count_1month < Len(streams)
            /\ (\E i \in DOMAIN streams :
                    /\ streams[i].last_event_timestamp # None
                    /\ OnCutoff(streams[i].last_event_timestamp[1], Now, WeekDays))
                 => count_1week < Len(streams)
            /\ (\E i \in DOMAIN streams :
                    /\ streams[i].last_event_timestamp # None
                    /\ OnCutoff(streams[i].last_event_timestamp[1], Now, DayDays))
                 => count_1day < Len(streams)

\* a run counted one stream lying exactly 30 days before now
C8_Witness ==
    /\ Counted
    /\ Now.nanos = 0
    /\ Len(streams) = 1
    /\ streams[1].last_event_timestamp = Some(MsValue(BaseSecs - MonthDays * SecsPerDay, 0))
    /\ OnCutoff(streams[1].last_event_timestamp[1], Now, MonthDays)
    /\ count_1month = 0

\* C9: every stream whose reported millisecond instant is strictly later
\* than now - D days is included in the count of D.
C9_EveryActiveStreamCounted ==
    current_datetime # None =>
        \A D \in Windows :
            count_active_streams(groupStreams, Now, D)
                >= Cardinality(MsActiveStreams(groupStreams, Now, D))

\* the four lines a run has printed once the counts are computed
CountedOutput ==
    << [line |-> "Found streams", count |-> Len(streams), days |-> 0],
       CountLine(Cardinality(ActiveStreams(streams, Now, MonthDays)), MonthDays),
       CountLine(Cardinality(ActiveStreams(streams, Now, WeekDays)), WeekDays),
       CountLine(Cardinality(ActiveStreams(streams, Now, DayDays)), DayDays) >>

C10_State ==
    /\ PendingCalls <= 1
    /\ describeCalls # <<>> => current_datetime # None
    /\ putCalls # <<>> =>
        /\ DescribeSucceeded
        /\ Len(stdout) >= 4
        /\ SubSeq(stdout, 1, 4) = CountedOutput
    /\ (describeCalls = <<>> \/ ~DescribeSucceeded) =>
        /\ stdout = <<>>
        /\ putCalls = <<>>
        /\ <<count_1month, count_1week, count_1day>> = <<0, 0, 0>>

C10_Step ==
    /\ current_datetime # None => current_datetime' = current_datetime
    /\ DescribeSucceeded => streams' = streams
    /\ describeCalls # <<>> => Len(describeCalls') = Len(describeCalls)

\* C10: at most one outbound call is in flight; the submission is issued
\* only after the listing succeeded and the 30-, 7- and 1-day counts were
\* computed, in that order, from that one listing result and the one instant
\* captured before the listing call; after a failed listing no count is
\* computed and nothing is submitted.
C10_LinearRun == [](C10_State) /\ [][C10_Step]_vars

\* the submission is in flight, after four lines of output
C10_Witness ==
    /\ pc = "await_put"
    /\ PendingCalls = 1
    /\ Len(stdout) = 4
    /\ count_1month = 2

====
